---- MODULE Spec2Model ----
(***************************************************************************)
(* A model of backup.py: the path helpers it calls, the pure functions     *)
(* check_excluded_filetype, get_files and make_backup_file_path, the       *)
(* procedure main, and two runs of the directory-creation steps sharing    *)
(* one file system.                                                        *)
(*                                                                         *)
(* A Python string is a sequence of one-character strings, so that         *)
(* str.find, slicing, os.path.join, os.path.dirname and os.path.splitext   *)
(* are computed character by character as the library computes them.       *)
(* Python indices are 0-based; TLA+ sequences are 1-based.                 *)
(***************************************************************************)
EXTENDS Integers, Sequences, FiniteSets, TLC

VARIABLES
    \* backup_config.py, and the source tree the run reads
    log_setup,          \* log_setup[1], the log level
    source_dirs,        \* a sequence of <<path, alias>>
    backup_locs,        \* a sequence of paths
    exclude_file_types, \* a set of extensions
    disk,               \* the files of the source tree, in the order a directory listing gives them
    \* get_files and make_backup_file_path applied to a source tree
    file_paths,         \* the list get_files returned
    m_enumerated,       \* get_files has been called
    m_root,             \* the backup directory the files are mapped into
    m_dest,             \* make_backup_file_path of file_paths[k], for the files mapped so far
    \* check_excluded_filetype applied to one path
    x_f,                \* the argument f
    x_excl,             \* the argument exclude_file_types
    x_out,              \* <<>> before the call, then <<exclude_query>>
    \* main
    pc,                 \* where main is
    raised,             \* the exception that ended main, "" while none has
    log_open,           \* logging.basicConfig has opened the log file
    backup_dirs,        \* the list of timestamped backup directories
    bi,                 \* the outer loop's position in backup_dirs
    fi,                 \* the inner loop's position in file_paths
    failed_copies,      \* the counter of failed copies
    reported,           \* the count the closing message gives, -1 before it
    \* the file system under the backup locations
    dst_dirs,           \* the directories that exist
    dst_files,          \* the files that exist
    manifest,           \* backup_notes.txt of each backup directory that has one
    \* the history of the run
    notes_done,         \* the backup directories whose backup_notes call has returned
    attempted,          \* <<b, f>>: copyfile was called for file_paths[f] into backup_dirs[b]
    failed,             \* the attempts whose copyfile raised
    \* two runs creating the same directories
    r_pc,               \* where each run is
    r_i                 \* each run's position in the list of directories

config_vars == <<log_setup, source_dirs, backup_locs, exclude_file_types, disk>>

map_vars == <<m_enumerated, m_root, m_dest>>

ext_vars == <<x_f, x_excl, x_out>>

main_vars == <<pc, raised, log_open, backup_dirs, bi, fi, failed_copies, reported>>

fs_vars == <<dst_dirs, dst_files, manifest>>

history_vars == <<notes_done, attempted, failed>>

race_vars == <<r_pc, r_i>>

vars == <<config_vars, file_paths, map_vars, ext_vars, main_vars, fs_vars,
          history_vars, race_vars>>

(***************************************************************************)
(* Bounds of the model.                                                    *)
(***************************************************************************)
\* longest path handed to check_excluded_filetype
MaxNameLen == 4

\* most entries of source_dirs
MaxSources == 2

\* most files of the source tree that get_files and make_backup_file_path are applied to
MaxFiles == 2

\* most files of the source tree that main backs up
MaxRunFiles == 2

(***************************************************************************)
(* Strings.                                                                *)
(***************************************************************************)
sep == "/"

extsep == "."

SetMin(S) == CHOOSE m \in S : \A n \in S : m <= n

SetMax(S) == CHOOSE m \in S : \A n \in S : n <= m

\* every string over the alphabet A of length at most n
StrUpTo(A, n) == UNION {[1..k -> A] : k \in 0..n}

\* s[k:]
SliceFrom(s, k) == SubSeq(s, k + 1, Len(s))

\* s[:k]
SliceTo(s, k) == SubSeq(s, 1, k)

\* s.find(sub): the lowest 0-based index at which sub occurs in s, or -1
Find(s, sub) ==
    LET hits == {i \in 0..(Len(s) - Len(sub)) : SubSeq(s, i + 1, i + Len(sub)) = sub}
    IN  IF hits = {} THEN -1 ELSE SetMin(hits)

\* s.rfind(c) for a one-character c: the highest 0-based index, or -1
RFind(s, c) ==
    LET hits == {i \in 0..(Len(s) - 1) : s[i + 1] = c}
    IN  IF hits = {} THEN -1 ELSE SetMax(hits)

\* s.rstrip('/')
RStripSep(s) ==
    LET keep == {k \in 0..Len(s) : \A i \in (k + 1)..Len(s) : s[i] = sep}
    IN  SliceTo(s, SetMin(keep))

\* one character of str.lower(), on the letters the model uses
LowerChar(c) ==
    CASE c = "S" -> "s"
      [] c = "X" -> "x"
      [] OTHER   -> c

\* s.lower()
Lower(s) == [i \in 1..Len(s) |-> LowerChar(s[i])]

\* os.path.join(a, b) (posixpath)
Join(a, b) ==
    IF Len(b) > 0 /\ b[1] = sep THEN b
    ELSE IF Len(a) = 0 \/ a[Len(a)] = sep THEN a \o b
    ELSE a \o <<sep>> \o b

\* os.path.dirname(p) (posixpath)
Dirname(p) ==
    LET head == SliceTo(p, RFind(p, sep) + 1)
    IN  IF Len(head) > 0 /\ (\E i \in 1..Len(head) : head[i] # sep)
        THEN RStripSep(head)
        ELSE head

\* os.path.splitext(p)[-1] (genericpath._splitext): the text from the last dot,
\* when that dot lies in the last segment after a character that is not a dot
SplitExt(p) ==
    LET sepIndex == RFind(p, sep)
        dotIndex == RFind(p, extsep)
    IN  IF dotIndex > sepIndex
           /\ \E i \in (sepIndex + 1)..(dotIndex - 1) : p[i + 1] # extsep
        THEN SliceFrom(p, dotIndex)
        ELSE <<>>

(***************************************************************************)
(* check_excluded_filetype                                                 *)
(***************************************************************************)
check_excluded_filetype_CaseSensitive(f, types) ==
    LET ext == SplitExt(f)
    IN  IF ext \notin types THEN FALSE ELSE TRUE

check_excluded_filetype(f, types) ==
    LET ext == Lower(SplitExt(f))
    IN  IF ext \notin types THEN FALSE ELSE TRUE

(***************************************************************************)
(* get_files.  os.walk(top) lists a directory top-down: the files of the   *)
(* directory, each joined to the directory's path as the walk spells it,   *)
(* then each sub-directory in turn.  The walk spells the top directory as  *)
(* it was given.  A directory that does not exist yields nothing.          *)
(***************************************************************************)
\* the file or directory F lies strictly inside directory dir
Under(F, dir) ==
    /\ Len(F) > Len(dir) + 1
    /\ SliceTo(F, Len(dir) + 1) = dir \o <<sep>>

\* the path of F relative to the directory dir that holds it
RelTo(F, dir) == SliceFrom(F, Len(dir) + 1)

\* the first segment of a relative path
FirstSegment(rel) ==
    IF Find(rel, <<sep>>) = -1 THEN rel ELSE SliceTo(rel, Find(rel, <<sep>>))

\* a sequence without the later copies of its elements
RECURSIVE Dedup(_)
Dedup(q) ==
    IF q = <<>> THEN <<>>
    ELSE LET front == Dedup(SubSeq(q, 1, Len(q) - 1))
             last  == q[Len(q)]
         IN  IF \E i \in 1..Len(front) : front[i] = last THEN front
             ELSE Append(front, last)

\* file_paths.append(os.path.join(paths, f))
WalkFile_NameOnly(paths, f) == f

WalkFile(paths, f) == Join(paths, f)

\* the paths one os.walk appends: dirpath is the walk's spelling of the
\* directory, dir the directory's path in the tree
RECURSIVE Walk(_, _, _)
RECURSIVE WalkDirs(_, _, _, _)
Walk(dsk, dirpath, dir) ==
    LET inside == SelectSeq(dsk, LAMBDA F : Under(F, dir))
        files  == SelectSeq(inside, LAMBDA F : Find(RelTo(F, dir), <<sep>>) = -1)
        deeper == SelectSeq(inside, LAMBDA F : Find(RelTo(F, dir), <<sep>>) # -1)
        dirs   == Dedup([i \in 1..Len(deeper) |-> FirstSegment(RelTo(deeper[i], dir))])
    IN  [i \in 1..Len(files) |-> WalkFile(dirpath, RelTo(files[i], dir))]
            \o WalkDirs(dsk, dirpath, dir, dirs)

WalkDirs(dsk, dirpath, dir, dirs) ==
    IF dirs = <<>> THEN <<>>
    ELSE Walk(dsk, Join(dirpath, Head(dirs)), dir \o <<sep>> \o Head(dirs))
            \o WalkDirs(dsk, dirpath, dir, Tail(dirs))

\* the directory a configured path names: the path without a closing separator
DirOf(top) == RStripSep(top)

\* file_paths of get_files(source_dirs); file_count is its length
RECURSIVE get_files(_, _)
get_files(sds, dsk) ==
    IF sds = <<>> THEN <<>>
    ELSE Walk(dsk, Head(sds)[1], DirOf(Head(sds)[1])) \o get_files(Tail(sds), dsk)

(***************************************************************************)
(* make_backup_file_path.  "find(...) is not -1" compares identities;      *)
(* CPython keeps one object for each small integer, -1 among them, so the  *)
(* test is find(...) != -1.                                                *)
(***************************************************************************)
make_backup_file_path(sds, backup_dir, source_file_path) ==
    LET hits == {i \in 1..Len(sds) : Find(source_file_path, sds[i][1]) # -1}
    IN  IF hits = {} THEN [raised |-> TRUE, path |-> <<>>]
        ELSE LET source_dir == sds[SetMin(hits)]
                 base_path  == source_dir[2] \o SliceFrom(source_file_path, Len(source_dir[1]))
             IN  [raised |-> FALSE, path |-> Join(backup_dir, base_path)]

(***************************************************************************)
(* The configurations and source trees the model draws from.               *)
(***************************************************************************)
SrcPaths == {<<"a">>, <<"a", "b">>, <<"b">>, <<"a", sep>>}

Aliases == {<<"x">>, <<"y">>}

\* where a file is placed below a source directory
RelPaths == {<<"a">>, <<"f">>, <<"a", sep, "f">>}

SeqsUpTo(S, n) == UNION {[1..k -> S] : k \in 1..n}

SourceLists == SeqsUpTo(SrcPaths \X Aliases, MaxSources)

\* a source tree: distinct files, none of them inside another or where a
\* source directory is
IsTree(sds, dsk) ==
    /\ \A i, j \in 1..Len(dsk) : i # j => dsk[i] # dsk[j] /\ ~Under(dsk[i], dsk[j])
    /\ \A i \in 1..Len(dsk), j \in 1..Len(sds) :
            dsk[i] # DirOf(sds[j][1]) /\ ~Under(DirOf(sds[j][1]), dsk[i])

\* the trees whose files were each placed below one of the source directories
Trees(sds) ==
    LET placed == {DirOf(sds[i][1]) \o <<sep>> \o rel : i \in 1..Len(sds), rel \in RelPaths}
    IN  {dsk \in SeqsUpTo(placed, MaxFiles) : IsTree(sds, dsk)}

(***************************************************************************)
(* SpecMap: get_files, then make_backup_file_path of each file it found.   *)
(***************************************************************************)
BackupDir == <<"d", sep, "T">>

ExtIdle ==
    /\ x_f = <<>>
    /\ x_excl = {}
    /\ x_out = <<>>

MapIdle ==
    /\ m_enumerated = FALSE
    /\ m_root = <<>>
    /\ m_dest = <<>>

MainIdle ==
    /\ pc = "idle"
    /\ raised = ""
    /\ log_open = FALSE
    /\ backup_dirs = <<>>
    /\ bi = 0
    /\ fi = 0
    /\ failed_copies = 0
    /\ reported = -1
    /\ dst_dirs = {}
    /\ dst_files = {}
    /\ manifest = <<>>
    /\ notes_done = {}
    /\ attempted = {}
    /\ failed = {}

RaceIdle ==
    /\ r_pc = <<>>
    /\ r_i = <<>>

ConfigIdle ==
    /\ log_setup = "ERROR"
    /\ source_dirs = <<>>
    /\ backup_locs = <<>>
    /\ exclude_file_types = {}
    /\ disk = <<>>

MapInit ==
    /\ log_setup = "ERROR"
    /\ source_dirs \in SourceLists
    /\ backup_locs = <<>>
    /\ exclude_file_types = {}
    /\ disk \in Trees(source_dirs)
    /\ file_paths = <<>>
    /\ m_enumerated = FALSE
    /\ m_root = BackupDir
    /\ m_dest = <<>>
    /\ ExtIdle
    /\ MainIdle
    /\ RaceIdle

MapEnumerate ==
    /\ ~m_enumerated
    /\ file_paths' = get_files(source_dirs, disk)
    /\ m_enumerated' = TRUE
    /\ UNCHANGED <<m_root, m_dest, config_vars, ext_vars, main_vars, fs_vars,
                   history_vars, race_vars>>

MapFile ==
    /\ m_enumerated
    /\ Len(m_dest) < Len(file_paths)
    /\ m_dest' = Append(m_dest,
                        make_backup_file_path(source_dirs, m_root, file_paths[Len(m_dest) + 1]))
    /\ UNCHANGED <<file_paths, m_enumerated, m_root, config_vars, ext_vars, main_vars,
                   fs_vars, history_vars, race_vars>>

MapNext == MapEnumerate \/ MapFile

SpecMap == MapInit /\ [][MapNext]_vars

(***************************************************************************)
(* SpecExt: check_excluded_filetype of one path.                           *)
(***************************************************************************)
\* the letters of the file names and the extensions the exclusion list is drawn from
ExtAlphabet == {"s", "S", "x", extsep, sep}

ExclUniverse == {<<extsep, "s">>, <<extsep, "x">>}

\* the paths of files: the final segment is a name, and neither "." nor ".."
FilePaths ==
    {f \in StrUpTo(ExtAlphabet, MaxNameLen) :
        SliceFrom(f, RFind(f, sep) + 1) \notin {<<>>, <<extsep>>, <<extsep, extsep>>}}

ExtInit ==
    /\ x_f \in FilePaths
    /\ x_excl \in SUBSET ExclUniverse
    /\ x_out = <<>>
    /\ ConfigIdle
    /\ file_paths = <<>>
    /\ MapIdle
    /\ MainIdle
    /\ RaceIdle

CheckExcluded ==
    /\ x_out = <<>>
    /\ x_out' = <<check_excluded_filetype(x_f, x_excl)>>
    /\ UNCHANGED <<x_f, x_excl, config_vars, file_paths, map_vars, main_vars, fs_vars,
                   history_vars, race_vars>>

SpecExt == ExtInit /\ [][CheckExcluded]_vars

(***************************************************************************)
(* The file system calls of main, on the directories and files that exist  *)
(* under the backup locations.  env is what the operating system answers   *)
(* beyond what the model's file system decides: "ok", or "OSError" (no     *)
(* permission, a full disk, a source file that vanished).                  *)
(***************************************************************************)
Env == {"ok", "OSError"}

\* os.path.isdir(d)
IsDir(dirs, d) == d \in dirs

\* d and the directories above it
Ancestors(d) ==
    {SliceTo(d, k) : k \in {k \in 1..Len(d) : k = Len(d) \/ d[k + 1] = sep}}
        \ {<<>>, <<sep>>}

\* os.makedirs(d): raises when d exists, when a file is in its way, or when
\* the operating system refuses; otherwise d and the missing directories
\* above it exist afterwards
makedirs(dirs, files, d, env) ==
    IF d \in dirs \/ Ancestors(d) \cap files # {} \/ env # "ok"
    THEN [raised |-> TRUE, dirs |-> dirs]
    ELSE [raised |-> FALSE, dirs |-> dirs \cup Ancestors(d)]

\* copyfile(f, dst, follow_symlinks=False): raises when dst is a directory or
\* the operating system refuses; otherwise dst is a file afterwards
copyfile(dirs, files, dst, env) ==
    IF dst \in dirs \/ env # "ok"
    THEN [raised |-> TRUE, files |-> files]
    ELSE [raised |-> FALSE, files |-> files \cup {dst}]

(***************************************************************************)
(* setup_log and backup_notes                                              *)
(***************************************************************************)
\* setup_log(log_setup[0], log_setup[1]): opened tells whether
\* logging.basicConfig was reached and opened the log file
setup_log_Unchecked(log_level) == [raised |-> FALSE, opened |-> TRUE]

setup_log(log_level) ==
    IF log_level \notin {"ERROR", "INFO", "DEBUG"}
    THEN [raised |-> TRUE, opened |-> FALSE]
    ELSE [raised |-> FALSE, opened |-> TRUE]

\* what backup_notes writes to backup_location/backup_notes.txt, section by
\* section (the machine's name left out)
backup_notes(backup_location, sds, blocs, excluded_types, ts, nts) ==
    [Date      |-> ts,
     Sources   |-> [i \in 1..Len(sds) |-> <<i - 1, sds[i][1]>>],
     Aliases   |-> [i \in 1..Len(sds) |-> <<i - 1, sds[i][2]>>],
     Locations |-> [i \in 1..Len(blocs) |->
                        [path |-> blocs[i], here |-> ~(blocs[i] # backup_location)]],
     Excluded  |-> excluded_types,
     Notes     |-> nts]

(***************************************************************************)
(* main                                                                    *)
(***************************************************************************)
\* datetime.datetime.now().strftime(...), computed once
timestamp == <<"T">>

notes == "Backup test"

\* make_backup_directory(backup_loc, timestamp)
make_backup_directory(dirs, files, backup_loc, ts, env) ==
    LET backup_dir == Join(backup_loc, ts)
    IN  IF ~IsDir(dirs, backup_dir)
        THEN [path |-> backup_dir] @@ makedirs(dirs, files, backup_dir, env)
        ELSE [path |-> backup_dir, raised |-> FALSE, dirs |-> dirs]

\* the list of backup locations main hands to backup_notes
NotesLocations_Configured == backup_locs

NotesLocations == backup_dirs

\* "except:" catches whatever copyfile raises
Caught(e) == TRUE

\* failed_copies += 1
CountFailure_Lost(n) == n

CountFailure(n) == n + 1

Raise(e) ==
    /\ raised' = e
    /\ pc' = "raised"

SetupLog ==
    /\ pc = "setup_log"
    /\ LET r == setup_log(log_setup)
       IN  /\ log_open' = r.opened
           /\ IF r.raised THEN Raise("ValueError: log level")
              ELSE pc' = "make_dirs" /\ UNCHANGED raised
    /\ UNCHANGED <<backup_dirs, bi, fi, failed_copies, reported, config_vars, file_paths,
                   fs_vars, history_vars, map_vars, ext_vars, race_vars>>

\* one turn of "for dest in backup_locs"
MakeBackupDirectory ==
    /\ pc = "make_dirs"
    /\ Len(backup_dirs) < Len(backup_locs)
    /\ \E env \in Env :
        LET r == make_backup_directory(dst_dirs, dst_files,
                                       backup_locs[Len(backup_dirs) + 1], timestamp, env)
        IN  IF r.raised
            THEN /\ Raise("OSError: make_backup_directory")
                 /\ UNCHANGED <<backup_dirs, dst_dirs>>
            ELSE /\ backup_dirs' = Append(backup_dirs, r.path)
                 /\ dst_dirs' = r.dirs
                 /\ UNCHANGED <<pc, raised>>
    /\ UNCHANGED <<log_open, bi, fi, failed_copies, reported, config_vars, file_paths,
                   dst_files, manifest, history_vars, map_vars, ext_vars, race_vars>>

GetFiles ==
    /\ pc = "make_dirs"
    /\ Len(backup_dirs) = Len(backup_locs)
    /\ file_paths' = get_files(source_dirs, disk)
    /\ bi' = 1
    /\ pc' = "backup"
    /\ UNCHANGED <<raised, log_open, backup_dirs, fi, failed_copies, reported, config_vars,
                   fs_vars, history_vars, map_vars, ext_vars, race_vars>>

\* the start of one turn of "for backup_dir in backup_dirs": backup_notes
BackupNotes_Left_Out ==
    /\ pc = "backup"
    /\ bi <= Len(backup_dirs)
    /\ fi' = 1
    /\ pc' = "files"
    /\ UNCHANGED <<raised, log_open, backup_dirs, bi, failed_copies, reported, config_vars,
                   file_paths, fs_vars, history_vars, map_vars, ext_vars, race_vars>>

BackupNotes ==
    /\ pc = "backup"
    /\ bi <= Len(backup_dirs)
    /\ LET backup_dir == backup_dirs[bi]
           text == backup_notes(backup_dir, source_dirs, NotesLocations,
                                exclude_file_types, timestamp, notes)
       IN  \E env \in Env :
            IF env = "ok"
            THEN /\ manifest' = (backup_dir :> text) @@ manifest
                 /\ notes_done' = notes_done \cup {backup_dir}
                 /\ fi' = 1
                 /\ pc' = "files"
                 /\ UNCHANGED raised
            ELSE \* open() or write() raised: the file is missing or cut short
                 /\ manifest' = [d \in DOMAIN manifest \ {backup_dir} |-> manifest[d]]
                 /\ Raise("OSError: backup_notes")
                 /\ UNCHANGED <<notes_done, fi>>
    /\ UNCHANGED <<log_open, backup_dirs, bi, failed_copies, reported, config_vars,
                   file_paths, dst_dirs, dst_files, attempted, failed, map_vars, ext_vars,
                   race_vars>>

\* one turn of "for f in file_paths"; the sleep at level DEBUG changes nothing
\* the model holds
ProcessFile ==
    /\ pc = "files"
    /\ fi <= Len(file_paths)
    /\ LET f          == file_paths[fi]
           backup_dir == backup_dirs[bi]
           mapped     == make_backup_file_path(source_dirs, backup_dir, f)
           parent     == Dirname(mapped.path)
       IN  IF check_excluded_filetype(f, exclude_file_types)
           THEN /\ fi' = fi + 1
                /\ UNCHANGED <<pc, raised, failed_copies, dst_dirs, dst_files, attempted, failed>>
           ELSE IF mapped.raised
           THEN /\ Raise("ValueError: no source directory")
                /\ UNCHANGED <<fi, failed_copies, dst_dirs, dst_files, attempted, failed>>
           ELSE \E mk \in Env, cp \in Env :
                LET made   == IF ~IsDir(dst_dirs, parent)
                              THEN makedirs(dst_dirs, dst_files, parent, mk)
                              ELSE [raised |-> FALSE, dirs |-> dst_dirs]
                    copied == copyfile(made.dirs, dst_files, mapped.path, cp)
                IN  IF made.raised
                    THEN /\ Raise("OSError: makedirs")
                         /\ UNCHANGED <<fi, failed_copies, dst_dirs, dst_files, attempted,
                                        failed>>
                    ELSE IF copied.raised /\ ~Caught("OSError")
                    THEN /\ Raise("OSError: copyfile")
                         /\ dst_dirs' = made.dirs
                         /\ attempted' = attempted \cup {<<bi, fi>>}
                         /\ failed' = failed \cup {<<bi, fi>>}
                         /\ UNCHANGED <<fi, failed_copies, dst_files>>
                    ELSE /\ dst_dirs' = made.dirs
                         /\ dst_files' = copied.files
                         /\ attempted' = attempted \cup {<<bi, fi>>}
                         /\ failed' = IF copied.raised THEN failed \cup {<<bi, fi>>} ELSE failed
                         /\ failed_copies' = IF copied.raised THEN CountFailure(failed_copies)
                                             ELSE failed_copies
                         /\ fi' = fi + 1
                         /\ UNCHANGED <<pc, raised>>
    /\ UNCHANGED <<log_open, backup_dirs, bi, reported, config_vars, file_paths, manifest,
                   notes_done, map_vars, ext_vars, race_vars>>

\* "Completed backup to ...": the inner loop is over
BackupCompleted ==
    /\ pc = "files"
    /\ fi > Len(file_paths)
    /\ bi' = bi + 1
    /\ pc' = "backup"
    /\ UNCHANGED <<raised, log_open, backup_dirs, fi, failed_copies, reported, config_vars,
                   file_paths, fs_vars, history_vars, map_vars, ext_vars, race_vars>>

\* the closing messages: "no failed copy actions", "1 failed copy action" or
\* the count
Summary ==
    /\ pc = "backup"
    /\ bi > Len(backup_dirs)
    /\ reported' = failed_copies
    /\ pc' = "exit"
    /\ UNCHANGED <<raised, log_open, backup_dirs, bi, fi, failed_copies, config_vars,
                   file_paths, fs_vars, history_vars, map_vars, ext_vars, race_vars>>

(***************************************************************************)
(* Spec: one run of main.                                                  *)
(***************************************************************************)
LogLevels == {"ERROR", "INFO", "DEBUG", "WARNING"}

RunSourceLists ==
    {<< <<<<"a">>, <<"x">>>>, <<<<"b">>, <<"y">>>> >>,
     << <<<<"a">>, <<"x">>>>, <<<<"a", "b">>, <<"y">>>> >>}

RunLocLists == {<< <<"d">> >>, << <<"d">>, <<"e">> >>, << <<"d">>, <<"d", sep>> >>}

RunRelPaths == {<<"a">>, <<"f">>, <<"f", extsep, "s">>, <<"a", sep, "f">>}

RunTrees(sds) ==
    LET placed == {DirOf(sds[i][1]) \o <<sep>> \o rel : i \in 1..Len(sds), rel \in RunRelPaths}
    IN  {dsk \in SeqsUpTo(placed, MaxRunFiles) : IsTree(sds, dsk)}

Init ==
    /\ log_setup \in LogLevels
    /\ source_dirs \in RunSourceLists
    /\ backup_locs \in RunLocLists
    /\ exclude_file_types = {<<extsep, "s">>}
    /\ disk \in RunTrees(source_dirs)
    /\ file_paths = <<>>
    /\ pc = "setup_log"
    /\ raised = ""
    /\ log_open = FALSE
    /\ backup_dirs = <<>>
    /\ bi = 0
    /\ fi = 0
    /\ failed_copies = 0
    /\ reported = -1
    /\ dst_dirs = {}
    /\ dst_files = {}
    /\ manifest = <<>>
    /\ notes_done = {}
    /\ attempted = {}
    /\ failed = {}
    /\ MapIdle
    /\ ExtIdle
    /\ RaceIdle

Next ==
    \/ SetupLog
    \/ MakeBackupDirectory
    \/ GetFiles
    \/ BackupNotes
    \/ ProcessFile
    \/ BackupCompleted
    \/ Summary

Spec == Init /\ [][Next]_vars

(***************************************************************************)
(* SpecRace: two runs of main started in the same second with the same     *)
(* configuration, followed through the directories they create: the        *)
(* timestamped backup directories (make_backup_directory), then the        *)
(* directory of each file's copy (main).  Both places test os.path.isdir   *)
(* and then call os.makedirs; the other run may act between the two.  The  *)
(* operating system refuses nothing here.                                  *)
(***************************************************************************)
Runs == {1, 2}

RaceLocs == << <<"d">>, <<"e">> >>

RaceSources == << <<<<"a">>, <<"x">>>> >>

RaceFile == <<"a", sep, "f">>

\* the directories a run tests and creates, in the order it comes to them
RaceDirs ==
    LET roots == [i \in 1..Len(RaceLocs) |-> Join(RaceLocs[i], timestamp)]
    IN  roots \o [i \in 1..Len(roots) |->
                    Dirname(make_backup_file_path(RaceSources, roots[i], RaceFile).path)]

RaceInit ==
    /\ r_pc = [p \in Runs |-> "isdir"]
    /\ r_i = [p \in Runs |-> 1]
    /\ dst_dirs = {}
    /\ dst_files = {}
    /\ ConfigIdle
    /\ file_paths = <<>>
    /\ MapIdle
    /\ ExtIdle
    /\ pc = "idle"
    /\ raised = ""
    /\ log_open = FALSE
    /\ backup_dirs = <<>>
    /\ bi = 0
    /\ fi = 0
    /\ failed_copies = 0
    /\ reported = -1
    /\ manifest = <<>>
    /\ notes_done = {}
    /\ attempted = {}
    /\ failed = {}

\* "if not os.path.isdir(...)"
RaceIsDir(p) ==
    /\ r_pc[p] = "isdir"
    /\ r_i[p] <= Len(RaceDirs)
    /\ IF IsDir(dst_dirs, RaceDirs[r_i[p]])
       THEN /\ r_i' = [r_i EXCEPT ![p] = @ + 1]
            /\ UNCHANGED r_pc
       ELSE /\ r_pc' = [r_pc EXCEPT ![p] = "makedirs"]
            /\ UNCHANGED r_i
    /\ UNCHANGED <<dst_dirs, dst_files, manifest, config_vars, file_paths, map_vars, ext_vars,
                   main_vars, history_vars>>

\* "os.makedirs(...)"
RaceMakeDirs(p) ==
    /\ r_pc[p] = "makedirs"
    /\ LET r == makedirs(dst_dirs, dst_files, RaceDirs[r_i[p]], "ok")
       IN  IF r.raised
           THEN /\ r_pc' = [r_pc EXCEPT ![p] = "raised"]
                /\ UNCHANGED <<r_i, dst_dirs>>
           ELSE /\ dst_dirs' = r.dirs
                /\ r_i' = [r_i EXCEPT ![p] = @ + 1]
                /\ r_pc' = [r_pc EXCEPT ![p] = "isdir"]
    /\ UNCHANGED <<dst_files, manifest, config_vars, file_paths, map_vars, ext_vars,
                   main_vars, history_vars>>

RaceNext == \E p \in Runs : RaceIsDir(p) \/ RaceMakeDirs(p)

SpecRace == RaceInit /\ [][RaceNext]_vars

(***************************************************************************)
(* The properties.                                                         *)
(***************************************************************************)
\* the sources whose directory holds the file F
SourcesHolding(F) == {i \in 1..Len(source_dirs) : Under(F, DirOf(source_dirs[i][1]))}

\* <root>/<alias>/<path-relative-to-source> for the file F of source i
Expected(root, i, F) ==
    Join(Join(root, source_dirs[i][2]), RelTo(F, DirOf(source_dirs[i][1])))

\* C1: every file that lies under one source directory (and under no other)
\* is mapped to <root>/<alias>/<path-relative-to-source> of that source.
C1_MappedUnderAlias ==
    \A k \in 1..Len(m_dest) : \A i \in SourcesHolding(file_paths[k]) :
        SourcesHolding(file_paths[k]) = {i}
            => m_dest[k] = [raised |-> FALSE, path |-> Expected(m_root, i, file_paths[k])]

\* C7: make_backup_file_path raises ValueError for no file that get_files
\* returned for the same source list.
C7_NoValueError ==
    /\ \A k \in 1..Len(m_dest) : ~m_dest[k].raised
    /\ m_enumerated =>
        \A k \in 1..Len(file_paths) :
            \E i \in 1..Len(source_dirs) : Find(file_paths[k], source_dirs[i][1]) # -1

\* C7, reached: every file of a tree of several files is mapped, one of them
\* by an entry after the first.
C7_Witness ==
    /\ Len(file_paths) > 1
    /\ Len(m_dest) = Len(file_paths)
    /\ \E k \in 1..Len(m_dest) : Find(file_paths[k], source_dirs[1][1]) = -1

AliasesDistinctAndPlain ==
    /\ \A i, j \in 1..Len(source_dirs) : i # j => source_dirs[i][2] # source_dirs[j][2]
    /\ \A i \in 1..Len(source_dirs) : Find(source_dirs[i][2], <<sep>>) = -1

\* C10: when the aliases are pairwise distinct and hold no separator, two
\* distinct files that get_files returned are never mapped to one destination.
C10_NoSharedDestination ==
    AliasesDistinctAndPlain =>
        \A k, l \in 1..Len(m_dest) :
            file_paths[k] # file_paths[l] => m_dest[k].path # m_dest[l].path

\* the text from the last '.' of the final path segment, empty if there is none
LastDotText(f) ==
    LET segment == SliceFrom(f, RFind(f, sep) + 1)
    IN  IF RFind(segment, extsep) = -1 THEN <<>>
        ELSE SliceFrom(segment, RFind(segment, extsep))

\* the same, but empty as well when only dots come before that '.' in the segment
LastDotTextAfterName(f) ==
    LET segment == SliceFrom(f, RFind(f, sep) + 1)
        dot     == RFind(segment, extsep)
    IN  IF \E i \in 1..dot : segment[i] # extsep THEN SliceFrom(segment, dot) ELSE <<>>

\* C6 as stated: the result is True exactly when the lower-cased text from the
\* last '.' of the final path segment is in the exclusion set.
C6_LastDotTextDecides ==
    x_out # <<>> => x_out[1] = (Lower(LastDotText(x_f)) \in x_excl)

\* C6 amended: the result is True exactly when the lower-cased extension is in
\* the exclusion set, the extension being the text from the last '.' of the
\* final path segment when a character other than '.' comes before it in that
\* segment, and empty otherwise.
C6_ExtensionDecides ==
    x_out # <<>> => x_out[1] = (Lower(LastDotTextAfterName(x_f)) \in x_excl)

\* C6, reached: IMAGE.SDF is excluded when '.sdf' is in the set (here S.S, '.s').
C6_Witness ==
    /\ x_f = <<"S", extsep, "S">>
    /\ <<extsep, "s">> \in x_excl
    /\ x_out = <<TRUE>>

\* the destination of file_paths[f] in backup_dirs[b]
DestOf(b, f) == make_backup_file_path(source_dirs, backup_dirs[b], file_paths[f]).path

Included == {f \in 1..Len(file_paths) :
                ~check_excluded_filetype(file_paths[f], exclude_file_types)}

\* C2: every failed copy is counted once and ends nothing: no exception of
\* copyfile ends main, the counter is the number of copy calls that raised,
\* every copy call that did not raise left its file at the mapped destination,
\* and when main is through, copyfile was called for every file that is not
\* excluded, in every backup directory, and the count reported is the number
\* of calls that raised.
C2_FailureIsolation ==
    /\ raised # "OSError: copyfile"
    /\ failed_copies = Cardinality(failed)
    /\ failed \subseteq attempted
    /\ \A at \in attempted \ failed : DestOf(at[1], at[2]) \in dst_files
    /\ pc = "exit" =>
        /\ reported = Cardinality(failed)
        /\ attempted = (1..Len(backup_dirs)) \X Included

\* C2, reached: main is through, one copy into a backup directory failed,
\* another file's copy into the same directory is in place, and 1 is reported.
C2_Witness ==
    /\ pc = "exit"
    /\ reported = 1
    /\ \E b \in 1..Len(backup_dirs) : \E f, g \in Included :
        /\ <<b, f>> \in failed
        /\ <<b, g>> \in attempted \ failed
        /\ DestOf(b, g) \in dst_files

\* C3: an I/O error met while a file is processed, the creation of the
\* destination's directory included, never ends main.
C3_PerFileErrorsStayInLoop == raised # "OSError: makedirs"

\* C4: copyfile is called for a backup directory only after backup_notes has
\* returned for that directory, and while the inner loop runs the directory
\* holds its manifest.
C4_NotesBeforeCopies ==
    /\ \A at \in attempted : backup_dirs[at[1]] \in notes_done
    /\ pc = "files" => backup_dirs[bi] \in DOMAIN manifest

\* C4, reached: a copy into the backup directory of the current turn has been made.
C4_Witness ==
    /\ pc = "files"
    /\ \E at \in attempted : at[1] = bi

\* C5: neither of two simultaneous runs raises while creating the directories.
C5_NoRunRaises == \A p \in Runs : r_pc[p] # "raised"

\* the paths a manifest lists as backup locations, and the places it marks
ListedPaths(m) == [i \in 1..Len(m.Locations) |-> m.Locations[i].path]

Marked(m) == {i \in 1..Len(m.Locations) : m.Locations[i].here}

\* C8 as stated: each manifest lists the configured destinations and marks
\* exactly one, the destination it is written under.
C8_ListsConfiguredDestinations ==
    \A d \in DOMAIN manifest :
        /\ ListedPaths(manifest[d]) = backup_locs
        /\ Cardinality(Marked(manifest[d])) = 1
        /\ \A i \in Marked(manifest[d]) : Join(backup_locs[i], timestamp) = d

\* C8 amended: each manifest lists, in the configured order, the timestamped
\* backup directory of every destination, and marks exactly the entries equal
\* to the directory the manifest is in.
C8_ListsBackupDirectories ==
    \A d \in DOMAIN manifest :
        /\ ListedPaths(manifest[d]) =
                [i \in 1..Len(backup_locs) |-> Join(backup_locs[i], timestamp)]
        /\ Marked(manifest[d]) =
                {i \in 1..Len(backup_locs) : Join(backup_locs[i], timestamp) = d}
        /\ Marked(manifest[d]) # {}

\* C8, reached: a manifest lists two backup directories and marks one.
C8_Witness ==
    \E d \in DOMAIN manifest :
        /\ Len(manifest[d].Locations) = 2
        /\ Cardinality(Marked(manifest[d])) = 1

\* C9: with a log level other than ERROR, INFO and DEBUG the run ends in
\* setup_log: no log file is opened, no directory made, no manifest written
\* and no file copied.
C9_BadLevelTouchesNothing ==
    log_setup \notin {"ERROR", "INFO", "DEBUG"} =>
        /\ pc \in {"setup_log", "raised"}
        /\ pc = "raised" => raised = "ValueError: log level"
        /\ ~log_open
        /\ dst_dirs = {} /\ dst_files = {}
        /\ DOMAIN manifest = {} /\ notes_done = {}
        /\ attempted = {}

\* C9, reached: setup_log has raised for the level WARNING.
C9_Witness ==
    /\ pc = "raised"
    /\ raised = "ValueError: log level"

====
